---------------------------- MODULE Spec2Model ----------------------------
(***************************************************************************)
(* license.sh: the yarn dependency-tree reconciliation                     *)
(* (src/license_sh/runners/yarn/__init__.py) and the concurrent licence    *)
(* fetch of the python runner (src/license_sh/runners/python/__init__.py). *)
(*                                                                         *)
(* Python values are modelled as follows.                                  *)
(*   str   [s |-> <<tokens>>]: the string cut at every "@"; the "@" are    *)
(*         tokens of their own, so "a@1.2.0" is <<"a", "@", "1.2.0">>      *)
(*   None  [none |-> TRUE]                                                 *)
(*   dict  a sequence of entries [k |-> key, v |-> value] in insertion     *)
(*         order, keys unique (Python dicts keep insertion order)          *)
(*   list  a sequence                                                      *)
(* The registry's JSON may be of any type, so there (and only there) a dict *)
(* is wrapped as [dict |-> entries] and a list as [list |-> items].         *)
(***************************************************************************)
EXTENDS Naturals, Sequences, FiniteSets

VARIABLES
    yarn_lock_json,   \* get_yarn_lock_json(): the parsed yarn.lock
    yarn_list,        \* get_yarn_list_json()['data']['trees']
    package_json,     \* the manifest
    package_map,      \* parse_yarn_lock(...)
    flat_tree,        \* get_flat_tree(...)
    nodes,            \* the AnyNode objects, in creation order; nodes[1] is root
    auth,             \* history: per node, the value of the local `dep` and
                      \* the node's own original child-set when it was built
    todo,             \* package.json dependencies get_dependency_tree has left
    stack,            \* the active add_nested_dependencies calls, innermost last
    pc,               \* position of YarnRunner.check
    all_dependencies, \* fetch_licenses: the requested (name, version) pairs
    responses,        \* the body the registry answers each request with
    tasks,            \* per request: "pending" | "done" | "consumed"
    completed,        \* tasks in the order they completed (as_completed)
    license_map,      \* fetch_licenses: the map being built
    fpc               \* position of fetch_licenses

yarnVars == <<yarn_lock_json, yarn_list, package_json, package_map, flat_tree,
              nodes, auth, todo, stack, pc>>
fetchVars == <<all_dependencies, responses, tasks, completed, license_map, fpc>>
vars == <<yarnVars, fetchVars>>

----------------------------------------------------------------------------
(* Bounds *)

\* Records (at any depth) of the `yarn list` output.
MaxRecords == 4
\* Pairs passed to fetch_licenses.
MaxPairs == 2

----------------------------------------------------------------------------
(* Python values *)

None == [none |-> TRUE]
S(tokens) == [s |-> tokens]

\* str(x) as an f-string formats it, as tokens
Fmt(x) == IF x = None THEN <<"None">> ELSE x.s

\* f'{n}@{v}'
FullName(n, v) == S(Fmt(n) \o <<"@">> \o Fmt(v))

\* `not x` for x a str or None
Falsy(x) == x = None \/ x = S(<< >>)

\* dict.get(k) / dict.get(k, default)
GetOr(d, k, default) ==
    IF \E i \in DOMAIN d : d[i].k = k
    THEN d[CHOOSE i \in DOMAIN d : d[i].k = k].v
    ELSE default
Get(d, k) == GetOr(d, k, None)

\* d[k] = v
Put(d, k, v) ==
    IF \E i \in DOMAIN d : d[i].k = k
    THEN [i \in DOMAIN d |-> IF d[i].k = k THEN [k |-> k, v |-> v] ELSE d[i]]
    ELSE Append(d, [k |-> k, v |-> v])

\* list(d.values())
Values(d) == [i \in DOMAIN d |-> d[i].v]

\* s.split('@') on the tokens of s: the fields between the "@" tokens
RECURSIVE Split(_)
Split(t) ==
    IF \A i \in DOMAIN t : t[i] # "@"
    THEN <<t>>
    ELSE LET i == CHOOSE j \in DOMAIN t :
                    t[j] = "@" /\ \A l \in 1..(j - 1) : t[l] # "@"
         IN  <<SubSeq(t, 1, i - 1)>> \o Split(SubSeq(t, i + 1, Len(t)))

----------------------------------------------------------------------------
(* yarn runner: pure functions *)

\* parse_yarn_lock: key -> dependency.get('version', None)
RECURSIVE parse_entries(_, _)
parse_entries(items, acc) ==
    IF items = << >> THEN acc
    ELSE parse_entries(Tail(items),
                       Put(acc, Head(items).k, GetOr(Head(items).v, S(<<"version">>), None)))
parse_yarn_lock(json_element) ==
    parse_entries(GetOr(json_element, S(<<"object">>), << >>), << >>)

\* get_name: the unpacking `parsedName, signName, *rest` needs two fields
ValueError == [error |-> "ValueError"]
get_name(name) ==
    LET parts == Split(name.s)
    IN  IF Len(parts) < 2 THEN ValueError
        ELSE IF name.s[1] = "@" THEN S(<<"@">> \o parts[2])
        ELSE S(parts[1])

\* get_flat_tree: the loop of lines 133-139 with flat_tree as accumulator
RECURSIVE flat_tree_loop(_, _, _)
flat_tree_loop(dependencies, pm, acc) ==
    IF dependencies = << >> THEN acc
    ELSE LET dependency == Head(dependencies)
             dep_full_name == dependency.name
         IN  flat_tree_loop(Tail(dependencies), pm,
                 Put(acc, dep_full_name,
                     [name |-> get_name(dep_full_name),
                      version |-> Get(pm, dep_full_name),
                      dependencies |-> flat_tree_loop(dependency.children, pm, << >>)]))
get_flat_tree(dependencies, pm) == flat_tree_loop(dependencies, pm, << >>)

\* get_node_from_dependency without its check of line 161
get_node_unchecked(dependency, parent) ==
    [name |-> dependency.name,
     version |-> dependency.version,
     parent |-> parent,
     dependencies |-> dependency.dependencies]

\* get_node_from_dependency: None, or the new AnyNode
get_node_from_dependency(dependency, parent) ==
    IF Falsy(dependency.version) \/ Falsy(dependency.name)
    THEN None
    ELSE [name |-> dependency.name,
          version |-> dependency.version,
          parent |-> parent,
          dependencies |-> dependency.dependencies]

\* find_full_dependency
find_full_dependency(dependencies, name) ==
    IF dependencies = << >> THEN None
    ELSE LET dependency == Get(dependencies, name)
         IN  IF dependency = None THEN None
             ELSE IF dependency.dependencies # << >> THEN dependency
             ELSE None

\* checkNode = node.parent; checkNode = checkNode.parent; ... up to the root
RECURSIVE Chain(_, _)
Chain(ns, i) == IF ns[i].parent = 0 THEN <<i>> ELSE <<i>> \o Chain(ns, ns[i].parent)

\* The local `dep` after lines 212-228: the first full dependency found in
\* the scopes from the parent up to the root, or None.
dep(ns, parent, dep_name) ==
    LET chain == Chain(ns, parent)
        hits == {j \in DOMAIN chain :
                    find_full_dependency(ns[chain[j]].dependencies, dep_name) # None}
    IN  IF hits = {} THEN None
        ELSE LET first == CHOOSE j \in hits : \A l \in hits : j <= l
             IN  find_full_dependency(ns[chain[first]].dependencies, dep_name)

\* names broken the way a slice off by one would: names[:-2]
names_short(ns, parent) ==
    LET chain == Chain(ns, parent)
        appended == [j \in 1..(Len(chain) - 1) |-> ns[chain[j + 1]].name]
    IN  IF Len(appended) < 2 THEN << >> ELSE SubSeq(appended, 1, Len(appended) - 2)

\* The local `names` after line 230: the name appended at line 222 is the one
\* of checkNode AFTER it moved up, and names[:-1] drops the root's.
names(ns, parent) ==
    LET chain == Chain(ns, parent)
        appended == [j \in 1..(Len(chain) - 1) |-> ns[chain[j + 1]].name]
    IN  SubSeq(appended, 1, Len(appended) - 1)

\* lines 232-233: whether add_nested_dependencies calls itself on the node
recurses(node, ns, d) ==
    /\ \A j \in DOMAIN names(ns, node.parent) : names(ns, node.parent)[j] # node.name
    /\ d # None

----------------------------------------------------------------------------
(* yarn runner: inputs *)

NameA == S(<<"a">>)
NameB == S(<<"b">>)
NameC == S(<<"c">>)
V120 == S(<<"1.2.0">>)
V200 == S(<<"2.0.0">>)
V300 == S(<<"3.0.0">>)
R100 == S(<<"^1.0.0">>)
R200 == S(<<"^2.0.0">>)

\* The full qualified names the listings are made of, in listing order.
ListingKeys == <<FullName(NameA, V120), FullName(NameB, V200), FullName(NameB, R200)>>

Record(key, children) == [name |-> key, children |-> children]

\* Listings of at most n records whose top-level records use the keys
\* ListingKeys[i..], each at most once, in that order.
RECURSIVE Listings(_, _)
Listings(n, i) ==
    IF n = 0 \/ i > Len(ListingKeys) THEN {<< >>}
    ELSE Listings(n, i + 1) \cup
         UNION {{<<Record(ListingKeys[i], c)>> \o rest :
                    c \in Listings(m, 1), rest \in Listings(n - 1 - m, i + 1)} :
                m \in 0..(n - 1)}

\* spec section 8: a@1.2.0 -> [b@2.0.0], and b@2.0.0 -> [c@3.0.0] at root level
Section8Listing ==
    <<Record(FullName(NameA, V120), <<Record(FullName(NameB, V200), << >>)>>),
      Record(FullName(NameB, V200), <<Record(FullName(NameC, V300), << >>)>>)>>

LockEntry(key, version) ==
    [k |-> key, v |-> <<[k |-> S(<<"version">>), v |-> version]>>]

\* What a yarn.lock may resolve; a lock holds any part of it.
LockUniverse ==
    <<LockEntry(FullName(NameA, R100), V120),
      LockEntry(FullName(NameA, V120), V120),
      LockEntry(FullName(NameB, R200), V200),
      LockEntry(FullName(NameB, V200), V200)>>

RECURSIVE Filter(_, _)
Filter(seq, keep) ==
    IF seq = << >> THEN << >>
    ELSE (IF Head(seq) \in keep THEN <<Head(seq)>> ELSE << >>) \o Filter(Tail(seq), keep)

Range(seq) == {seq[i] : i \in DOMAIN seq}

Locks == {<<[k |-> S(<<"object">>), v |-> Filter(LockUniverse, keep)]>> :
            keep \in SUBSET Range(LockUniverse)}

DeclaredUniverse == <<[k |-> NameA, v |-> R100], [k |-> NameB, v |-> R200]>>

\* package.json: with or without a name, declaring any part of DeclaredUniverse
Manifests ==
    {(IF nm = None THEN << >> ELSE <<[k |-> S(<<"name">>), v |-> nm]>>)
        \o <<[k |-> S(<<"dependencies">>), v |-> Filter(DeclaredUniverse, keep)]>> :
     nm \in {None, NameA}, keep \in SUBSET Range(DeclaredUniverse)}

----------------------------------------------------------------------------
(* yarn runner: YarnRunner.check up to the dependency tree *)

IdleFetch ==
    /\ all_dependencies = << >>
    /\ responses = << >>
    /\ tasks = << >>
    /\ completed = << >>
    /\ license_map = << >>
    /\ fpc = "idle"

Init ==
    /\ yarn_lock_json \in Locks
    /\ yarn_list \in Listings(MaxRecords, 1) \cup {Section8Listing}
    /\ package_json \in Manifests
    /\ package_map = << >>
    /\ flat_tree = << >>
    /\ nodes = << >>
    /\ auth = << >>
    /\ todo = << >>
    /\ stack = << >>
    /\ pc = "check"
    /\ IdleFetch

\* check lines 288-290 and get_dependency_tree lines 248-249: parse the lock,
\* flatten the listing, create the root node.
Analyse ==
    /\ pc = "check"
    /\ LET pm == parse_yarn_lock(yarn_lock_json)
           ft == get_flat_tree(yarn_list, pm)
       IN  /\ package_map' = pm
           /\ flat_tree' = ft
           /\ nodes' = <<[name |-> GetOr(package_json, S(<<"name">>), S(<<"package.json">>)),
                          version |-> Get(package_json, S(<<"version">>)),
                          parent |-> 0,
                          dependencies |-> ft]>>
    /\ auth' = <<[dep |-> None, own |-> << >>]>>
    /\ todo' = GetOr(package_json, S(<<"dependencies">>), << >>)
    /\ pc' = "tree"
    /\ UNCHANGED <<yarn_lock_json, yarn_list, package_json, stack, fetchVars>>

\* lines 252-253 for the next declared dependency
resolved_version(item) == Get(package_map, FullName(item.k, item.v))
dependency_of(item) == Get(flat_tree, FullName(item.k, resolved_version(item)))

\* get_dependency_tree lines 251-256, one iteration: the first-level node and
\* the call of add_nested_dependencies on it.
RootDependency ==
    /\ pc = "tree" /\ stack = << >> /\ todo # << >>
    /\ LET item == Head(todo)
           dependency == dependency_of(item)
       IN  /\ dependency # None
           /\ nodes' = Append(nodes, [name |-> item.k,
                                      version |-> dependency.version,
                                      parent |-> 1,
                                      dependencies |-> dependency.dependencies])
           /\ auth' = Append(auth, [dep |-> None, own |-> dependency.dependencies])
           /\ stack' = <<[parent |-> Len(nodes) + 1,
                          todo |-> Values(dependency.dependencies)]>>
    /\ todo' = Tail(todo)
    /\ UNCHANGED <<yarn_lock_json, yarn_list, package_json, package_map, flat_tree,
                   pc, fetchVars>>

\* line 255 when flat_tree.get(...) is None: dependency.get raises
\* AttributeError, which nothing catches.
RootDependencyRaises ==
    /\ pc = "tree" /\ stack = << >> /\ todo # << >>
    /\ dependency_of(Head(todo)) = None
    /\ pc' = "raised"
    /\ UNCHANGED <<yarn_lock_json, yarn_list, package_json, package_map, flat_tree,
                   nodes, auth, todo, stack, fetchVars>>

\* add_nested_dependencies lines 207-234, one iteration of the loop of the
\* innermost call.
Visit ==
    /\ pc = "tree" /\ stack # << >>
    /\ stack[Len(stack)].todo # << >>
    /\ LET top == stack[Len(stack)]
           dependency == Head(top.todo)
           node == get_node_from_dependency(dependency, top.parent)
           rest == [stack EXCEPT ![Len(stack)].todo = Tail(top.todo)]
       IN  IF node = None
           THEN /\ stack' = rest
                /\ UNCHANGED <<nodes, auth>>
           ELSE LET dep_name == FullName(node.name, node.version)
                    d == dep(nodes, top.parent, dep_name)
                    built == IF d = None THEN node
                             ELSE [node EXCEPT !.dependencies = d.dependencies]
                IN  /\ nodes' = Append(nodes, built)
                    /\ auth' = Append(auth, [dep |-> d, own |-> dependency.dependencies])
                    /\ stack' = IF recurses(node, nodes, d)
                                THEN Append(rest, [parent |-> Len(nodes) + 1,
                                                   todo |-> Values(d.dependencies)])
                                ELSE rest
    /\ UNCHANGED <<yarn_lock_json, yarn_list, package_json, package_map, flat_tree,
                   todo, pc, fetchVars>>

\* the loop of line 207 is exhausted: the innermost call returns
Return ==
    /\ pc = "tree" /\ stack # << >>
    /\ stack[Len(stack)].todo = << >>
    /\ stack' = SubSeq(stack, 1, Len(stack) - 1)
    /\ UNCHANGED <<yarn_lock_json, yarn_list, package_json, package_map, flat_tree,
                   nodes, auth, todo, pc, fetchVars>>

\* lines 259-262: delete the helper field of every node and return the root
Finish ==
    /\ pc = "tree" /\ stack = << >> /\ todo = << >>
    /\ nodes' = [i \in DOMAIN nodes |-> [name |-> nodes[i].name,
                                         version |-> nodes[i].version,
                                         parent |-> nodes[i].parent]]
    /\ pc' = "done"
    /\ UNCHANGED <<yarn_lock_json, yarn_list, package_json, package_map, flat_tree,
                   auth, todo, stack, fetchVars>>

Next == Analyse \/ RootDependency \/ RootDependencyRaises \/ Visit \/ Return \/ Finish

Spec == Init /\ [][Next]_vars

----------------------------------------------------------------------------
(* python runner: PythonRunner.fetch_licenses *)

JSONDecodeError == [error |-> "JSONDecodeError"]
AttributeError == [error |-> "AttributeError"]

Dict(entries) == [dict |-> entries]
IsDict(x) == "dict" \in DOMAIN x
IsStr(x) == "s" \in DOMAIN x

\* A response body: either text that is no JSON, or the text of a JSON value.
NotJson == [text |-> "<html>404 Not Found</html>"]
Json(value) == [json |-> value]

\* json.loads(body)
json_loads(body) == IF "json" \in DOMAIN body THEN body.json ELSE JSONDecodeError

\* x.get(k, default) on a value of any type: only a dict has .get
get_attr(x, k, default) == IF IsDict(x) THEN GetOr(x.dict, k, default) ELSE AttributeError

\* lines 59-61 on one body: JSONDecodeError, AttributeError, or the entry
\* [k |-> key, v |-> value] that line 61 stores.
handle(body) ==
    LET page == json_loads(body)
    IN  IF page = JSONDecodeError THEN JSONDecodeError
        ELSE LET info == get_attr(page, S(<<"info">>), Dict(<< >>))
             IN  IF info = AttributeError \/ ~IsDict(info) THEN AttributeError
                 ELSE [k |-> FullName(get_attr(info, S(<<"name">>), None),
                                      get_attr(info, S(<<"version">>), None)),
                       v |-> get_attr(info, S(<<"license">>), S(<<"Unknown">>))]

Pair(name, version) == [name |-> name, version |-> version]

\* (name, version) pairs of the flattened pipdeptree output, in a fixed order
PairUniverse == <<Pair(S(<<"django">>), S(<<"2.0">>)),
                  Pair(S(<<"six">>), S(<<"1.0">>)),
                  Pair(S(<<"six">>), S(<<"1.1">>))>>

\* The name the registry files a project under.
Canonical(name) == IF name = S(<<"django">>) THEN S(<<"Django">>) ELSE name

Info(entries) == Json(Dict(<<[k |-> S(<<"info">>), v |-> Dict(entries)]>>))
Field(k, v) == [k |-> S(<<k>>), v |-> v]

\* What the registry may answer a request for `pair` with.
Bodies(pair) ==
    {NotJson,
     Json([list |-> << >>]),
     Json(Dict(<<Field("message", S(<<"Not Found">>))>>)),
     Info(<<Field("license", S(<<"MIT">>))>>),
     Info(<<Field("name", pair.name), Field("version", pair.version)>>),
     Info(<<Field("name", Canonical(pair.name)), Field("version", pair.version),
            Field("license", S(<<"MIT">>))>>)}
    \cup {Info(<<Field("name", pair.name), Field("version", pair.version),
                 Field("license", l)>>) : l \in {S(<<"MIT">>), S(<< >>), None}}

RequestLists == {Filter(PairUniverse, keep) : keep \in
                    {k \in SUBSET Range(PairUniverse) : Cardinality(k) <= MaxPairs}}

IdleYarn ==
    /\ yarn_lock_json = << >>
    /\ yarn_list = << >>
    /\ package_json = << >>
    /\ package_map = << >>
    /\ flat_tree = << >>
    /\ nodes = << >>
    /\ auth = << >>
    /\ todo = << >>
    /\ stack = << >>
    /\ pc = "idle"

InitFetch ==
    /\ all_dependencies \in RequestLists
    /\ responses \in {r \in [DOMAIN all_dependencies -> UNION {Bodies(p) : p \in Range(PairUniverse)}] :
                        \A i \in DOMAIN r : r[i] \in Bodies(all_dependencies[i])}
    /\ tasks = << >>
    /\ completed = << >>
    /\ license_map = << >>
    /\ fpc = "start"
    /\ IdleYarn

\* lines 40-55: the empty map, one task per url
CreateTasks ==
    /\ fpc = "start"
    /\ tasks' = [i \in DOMAIN all_dependencies |-> "pending"]
    /\ license_map' = << >>
    /\ fpc' = "running"
    /\ UNCHANGED <<all_dependencies, responses, completed, yarnVars>>

\* lines 45-47: a fetch task finishes with the body of its response
TaskCompletes ==
    /\ fpc = "running"
    /\ \E i \in DOMAIN tasks :
        /\ tasks[i] = "pending"
        /\ tasks' = [tasks EXCEPT ![i] = "done"]
        /\ completed' = Append(completed, i)
    /\ UNCHANGED <<all_dependencies, responses, license_map, fpc, yarnVars>>

\* lines 57-61: as_completed hands over the earliest completed task, and its
\* page is stored under the name and version the page gives
ConsumeInsert ==
    /\ fpc = "running" /\ completed # << >>
    /\ LET r == handle(responses[Head(completed)])
       IN  /\ r \notin {JSONDecodeError, AttributeError}
           /\ license_map' = Put(license_map, r.k, r.v)
    /\ tasks' = [tasks EXCEPT ![Head(completed)] = "consumed"]
    /\ completed' = Tail(completed)
    /\ UNCHANGED <<all_dependencies, responses, fpc, yarnVars>>

\* lines 62-64: a body that is no JSON is passed over
ConsumeDrop ==
    /\ fpc = "running" /\ completed # << >>
    /\ handle(responses[Head(completed)]) = JSONDecodeError
    /\ tasks' = [tasks EXCEPT ![Head(completed)] = "consumed"]
    /\ completed' = Tail(completed)
    /\ UNCHANGED <<all_dependencies, responses, license_map, fpc, yarnVars>>

\* lines 60-61 on JSON that is no dict (or whose info is none): .get raises
\* AttributeError, which `except JSONDecodeError` does not catch; it leaves
\* fetch_concurrent, asyncio.run and fetch_licenses.
ConsumeRaise ==
    /\ fpc = "running" /\ completed # << >>
    /\ handle(responses[Head(completed)]) = AttributeError
    /\ fpc' = "raised"
    /\ UNCHANGED <<all_dependencies, responses, tasks, completed, license_map, yarnVars>>

\* lines 66-68: the loop over as_completed has had every task
ReturnMap ==
    /\ fpc = "running"
    /\ \A i \in DOMAIN tasks : tasks[i] = "consumed"
    /\ fpc' = "returned"
    /\ UNCHANGED <<all_dependencies, responses, tasks, completed, license_map, yarnVars>>

NextFetch ==
    CreateTasks \/ TaskCompletes \/ ConsumeInsert \/ ConsumeDrop \/ ConsumeRaise \/ ReturnMap

FetchSpec == InitFetch /\ [][NextFetch]_vars

----------------------------------------------------------------------------
(* The dependency tree, as the claims speak of it *)

Root == 1

\* The strict ancestors of node i other than the root
Ancestors(i) == Range(Chain(nodes, i)) \ {i, Root}

\* The nodes add_nested_dependencies built: those below the first level
Nested == {i \in DOMAIN nodes : nodes[i].parent \notin {0, Root}}

Children(i) == {j \in DOMAIN nodes : nodes[j].parent = i}

NameVersion(x) == [name |-> x.name, version |-> x.version]

\* name and version of the children of node i, in the order they were attached
ChildList(i) ==
    LET kids == SelectSeq([j \in DOMAIN nodes |-> j], LAMBDA j : nodes[j].parent = i)
    IN  [l \in DOMAIN kids |-> NameVersion(nodes[kids[l]])]

\* name and version of every entry of a child-set
Entries(child_set) == [l \in DOMAIN child_set |-> NameVersion(child_set[l].v)]

\* ... and of the entries that have a usable name and version
UsableEntries(child_set) ==
    SelectSeq(Entries(child_set), LAMBDA e : ~Falsy(e.name) /\ ~Falsy(e.version))

RepeatsAncestor(i) == \E j \in Ancestors(i) : nodes[j].name = nodes[i].name

\* the names of the packages of a listing
RECURSIVE PackageNames(_)
PackageNames(listing) ==
    UNION {{get_name(listing[l].name)} \cup PackageNames(listing[l].children) :
           l \in DOMAIN listing}

\* Lemma (with C2): the calls of add_nested_dependencies never nest deeper
\* than twice the number of distinct package names, plus one.
RecursionDepthBounded == Len(stack) <= 2 * Cardinality(PackageNames(yarn_list)) + 1

\* What is left to do: the position of check, the declared dependencies left,
\* then per active call, outermost first, the entries its loop has left.
Measure ==
    <<CASE pc = "check" -> 2 [] pc = "tree" -> 1 [] OTHER -> 0, Len(todo)>>
        \o [l \in DOMAIN stack |-> Len(stack[l].todo)]

\* a comes before b in the lexicographic order (a prefix before its extensions)
LexLess(a, b) ==
    \/ Len(a) < Len(b) /\ a = SubSeq(b, 1, Len(a))
    \/ \E k \in DOMAIN a \cap DOMAIN b :
         a[k] < b[k] /\ SubSeq(a, 1, k - 1) = SubSeq(b, 1, k - 1)

\* Lemma (with C2): every step of the reconciliation lowers Measure. With the
\* nesting bounded, the order is well-founded: the reconciliation ends, with
\* the tree or with the error of line 255.
EveryStepLowersMeasure == [][LexLess(Measure', Measure)]_vars

----------------------------------------------------------------------------
(* Claims: the yarn runner (under Spec) *)

\* C1 (as stated): in every returned tree, no node's name equals the name of
\* any of its strict ancestors other than the root.
C1_NoAncestorName ==
    pc = "done" => \A i \in DOMAIN nodes : ~RepeatsAncestor(i)

\* C1 (amended): in every returned tree, a node whose name equals the name of
\* a strict ancestor other than the root and other than its immediate parent
\* has no children (it is kept, as a leaf).
C1_RepeatedNameIsLeaf ==
    pc = "done" =>
        \A i \in DOMAIN nodes :
            (\E j \in Ancestors(i) \ {nodes[i].parent} : nodes[j].name = nodes[i].name)
                => Children(i) = {}

\* C1 witness: a returned tree with a node named like its grandparent or higher.
C1_Witness ==
    /\ pc = "done"
    /\ \E i \in DOMAIN nodes :
         \E j \in Ancestors(i) \ {nodes[i].parent} : nodes[j].name = nodes[i].name

\* C2 (as stated): reconciliation never nests deeper than the number of
\* distinct package names allows, and it ends with the tree returned: it
\* never ends in an error instead.
C2_TerminatesWithTree ==
    /\ RecursionDepthBounded
    /\ pc # "raised"

\* C3 (as stated): a node for which the ancestor search found a full
\* dependency has exactly the entries of that child-set as children.
C3_ExactChildSet ==
    pc = "done" =>
        \A i \in Nested :
            auth[i].dep # None => ChildList(i) = Entries(auth[i].dep.dependencies)

\* C3 (amended): a node for which the ancestor search found a full dependency,
\* and whose name is not the name of any strict ancestor other than the root,
\* has as children exactly the entries of that child-set that have a usable
\* name and version, in their order.
C3_UsableChildSet ==
    pc = "done" =>
        \A i \in Nested :
            (auth[i].dep # None /\ ~RepeatsAncestor(i))
                => ChildList(i) = UsableEntries(auth[i].dep.dependencies)

\* C3 witness: such a node, with an entry that became a child and an entry
\* that did not.
C3_Witness ==
    /\ pc = "done"
    /\ \E i \in Nested :
        /\ auth[i].dep # None /\ ~RepeatsAncestor(i)
        /\ ChildList(i) # << >>
        /\ Len(ChildList(i)) < Len(auth[i].dep.dependencies)

Section8Lock == <<[k |-> S(<<"object">>), v |-> <<LockEntry(FullName(NameA, R100), V120)>>]>>
Section8Chain ==
    <<[name |-> NameA, version |-> V120, parent |-> 1],
      [name |-> NameB, version |-> V200, parent |-> 2],
      [name |-> NameC, version |-> V300, parent |-> 3]>>
Declared == GetOr(package_json, S(<<"dependencies">>), << >>)

\* C4 (as stated): the section-8 scenario yields root -> a(1.2.0) -> b(2.0.0)
\* -> c(3.0.0), and a first-level node carries the version its declared
\* name@range resolves to in the version map.
C4_Section8Chain ==
    pc = "done" =>
        /\ (/\ yarn_list = Section8Listing
            /\ yarn_lock_json = Section8Lock
            /\ Declared = <<[k |-> NameA, v |-> R100]>>)
                => Tail(nodes) = Section8Chain
        /\ \A i \in DOMAIN nodes :
             nodes[i].parent = Root
                => nodes[i].version
                     = Get(package_map, FullName(nodes[i].name, Get(Declared, nodes[i].name)))

\* C5 (as stated): a declared dependency that does not resolve raises no
\* error; it becomes a first-level node without children, and the tree is
\* returned with the other declared dependencies in it.
C5_UnresolvedIsDeadEnd ==
    /\ pc # "raised"
    /\ pc = "done" =>
         \A l \in DOMAIN Declared :
            \E i \in DOMAIN nodes :
                /\ nodes[i].parent = Root
                /\ nodes[i].name = Declared[l].k
                /\ dependency_of(Declared[l]) = None => Children(i) = {}

\* C8 (as stated): a node built by add_nested_dependencies whose name is the
\* name of a strict ancestor other than the root, its parent included, has no
\* children.
C8_GuardCoversParent ==
    pc = "done" => \A i \in Nested : RepeatsAncestor(i) => Children(i) = {}

\* C9 (as stated): a node for which no ancestor scope has a full dependency,
\* and on which the cycle guard does not fire, gets the usable entries of its
\* own original child-set as children.
C9_OwnChildSet ==
    pc = "done" =>
        \A i \in Nested :
            (auth[i].dep = None /\ ~RepeatsAncestor(i))
                => ChildList(i) = UsableEntries(auth[i].own)

----------------------------------------------------------------------------
(* Claims: fetch_licenses (under FetchSpec) *)

\* A response of the expected structure: a JSON object whose info is an object
\* with a name and a version
WellFormed(body) ==
    /\ "json" \in DOMAIN body
    /\ IsDict(body.json)
    /\ IsDict(Get(body.json.dict, S(<<"info">>)))
    /\ IsStr(Get(Get(body.json.dict, S(<<"info">>)).dict, S(<<"name">>)))
    /\ IsStr(Get(Get(body.json.dict, S(<<"info">>)).dict, S(<<"version">>)))

\* The map the loop of lines 57-64 builds from the bodies in request order
RECURSIVE InRequestOrder(_, _)
InRequestOrder(bodies, acc) ==
    IF bodies = << >> THEN acc
    ELSE LET r == handle(Head(bodies))
         IN  InRequestOrder(Tail(bodies),
                            IF r \in {JSONDecodeError, AttributeError} THEN acc
                            ELSE Put(acc, r.k, r.v))

\* C6 (as stated): a response that is no JSON or not of the expected structure
\* only drops its pair: nothing is raised, and the returned map has one entry
\* per well-formed response.
C6_BadResponsesDropped ==
    /\ fpc # "raised"
    /\ fpc = "returned" =>
         Len(license_map) = Cardinality({i \in DOMAIN responses : WellFormed(responses[i])})

\* C7 (as stated): every entry of the map has the key name@version of a
\* requested pair and a value that is a non-empty string.
C7_EntriesMatchRequests ==
    \A l \in DOMAIN license_map :
        /\ IsStr(license_map[l].v) /\ license_map[l].v # S(<< >>)
        /\ \E i \in DOMAIN all_dependencies :
             license_map[l].k = FullName(all_dependencies[i].name, all_dependencies[i].version)

\* C10 (as stated): fetch_licenses returns once every task's result has been
\* consumed, and with the same map whatever order the tasks completed in: the
\* one the responses give in request order.
C10_OrderIndependent ==
    fpc = "returned" =>
        /\ \A i \in DOMAIN tasks : tasks[i] = "consumed"
        /\ Range(license_map) = Range(InRequestOrder(responses, << >>))

=============================================================================
